---- MODULE Spec2Model ----
(***************************************************************************)
(* Model of the heat-risk / HHI dashboard (streamlit-app/app.py and        *)
(* streamlit-app/utils.py).  A page run is the top-level script of app.py  *)
(* executed statement group by statement group; the two st.cache_data      *)
(* caches and the clock are the state that survives between runs.          *)
(* Strings that the code transforms are sequences of one-character         *)
(* strings, so that replace/title/startswith are computed, not assumed.    *)
(*                                                                         *)
(* Spec         page runs at one instant, every sidebar selection          *)
(* SpecCache    page runs as the clock advances, sidebar at its defaults   *)
(* SpecMapping  the column mapping on any small dataset header             *)
(* SpecArgs     create_map and the filter on any dataset and selection     *)
(***************************************************************************)
EXTENDS Integers, Sequences, FiniteSets, TLC

VARIABLES
    now,                          \* wall clock, seconds
    cache_app,                    \* st.cache_data store of app.cached_load_data
    cache_utils,                  \* st.cache_data store of utils.load_data
    net_calls,                    \* per day label, the times of requests.get
    pc,                           \* position of the page run
    ran,                          \* statement groups of the run begun so far
    selected_day,
    layer1_with_weighted_values,
    selected_state,
    selected_county,
    zipcode_boundary,
    hhi_column_mapping,
    hhi_columns,
    selected_hhi_indicator,
    heat_threshold,
    heat_health_index_threshold,
    filtered_data,
    download_csv,
    m,                            \* result of create_map
    highlighted_areas,            \* the 'highlight' column built by create_map
    messages,                     \* st.error / st.warning / st.subheader shown
    exception                     \* uncaught exception ending the run

vars == <<now, cache_app, cache_utils, net_calls, pc, ran, selected_day,
          layer1_with_weighted_values, selected_state, selected_county,
          zipcode_boundary, hhi_column_mapping, hhi_columns,
          selected_hhi_indicator, heat_threshold,
          heat_health_index_threshold, filtered_data, download_csv, m,
          highlighted_areas, messages, exception>>

----------------------------------------------------------------------------
(* Bounds of the model *)

MaxTicks == 4        \* clock advances at most this many half days
MaxCols == 3         \* columns of an enumerated dataset header
MaxRecs == 2         \* records of an enumerated dataset
MaxVal == 3          \* indicator values of an enumerated dataset

----------------------------------------------------------------------------
(* Python str operations on sequences of characters *)

LowerChars == <<"a","b","c","d","e","f","g","h","i","j","k","l","m",
                "n","o","p","q","r","s","t","u","v","w","x","y","z">>
UpperChars == <<"A","B","C","D","E","F","G","H","I","J","K","L","M",
                "N","O","P","Q","R","S","T","U","V","W","X","Y","Z">>

IsLower(c) == \E i \in 1..26 : LowerChars[i] = c
IsUpper(c) == \E i \in 1..26 : UpperChars[i] = c
IsCased(c) == IsLower(c) \/ IsUpper(c)
ToUpper(c) == IF IsLower(c)
              THEN UpperChars[CHOOSE i \in 1..26 : LowerChars[i] = c] ELSE c
ToLower(c) == IF IsUpper(c)
              THEN LowerChars[CHOOSE i \in 1..26 : UpperChars[i] = c] ELSE c

startswith(s, p) == Len(s) >= Len(p) /\ SubSeq(s, 1, Len(p)) = p

\* str.replace(old, new): every non-overlapping occurrence, left to right
RECURSIVE str_replace(_, _, _)
str_replace(s, old, new) ==
    IF Len(s) < Len(old) \/ Len(old) = 0 THEN s
    ELSE IF startswith(s, old)
         THEN new \o str_replace(SubSeq(s, Len(old) + 1, Len(s)), old, new)
         ELSE <<Head(s)>> \o str_replace(Tail(s), old, new)

\* str.title(): a cased character is upper after an uncased one, lower after
\* a cased one
str_title(s) ==
    [i \in 1..Len(s) |->
        IF ~IsCased(s[i]) THEN s[i]
        ELSE IF i = 1 \/ ~IsCased(s[i - 1]) THEN ToUpper(s[i])
             ELSE ToLower(s[i])]

\* a python list without a value's later duplicates, as a dict keeps its keys
RECURSIVE FirstOccurrences(_)
FirstOccurrences(s) ==
    IF s = <<>> THEN <<>>
    ELSE LET init == FirstOccurrences(SubSeq(s, 1, Len(s) - 1))
             x == s[Len(s)]
         IN IF \E i \in 1..Len(init) : init[i] = x THEN init
            ELSE Append(init, x)

SelectPrefixed(columns, prefix) ==
    SelectSeq(columns, LAMBDA col : startswith(col, prefix))

----------------------------------------------------------------------------
(* Column names *)

StrWeightedPrefix == <<"w","e","i","g","h","t","e","d","_">>
StrWeightedReplacement == <<"w","e","i","g","h","t","e","d"," ">>
ColOverallScore == StrWeightedPrefix \o <<"O","V","E","R","A","L","L","_","S","C","O","R","E">>
ColPAge65 == StrWeightedPrefix \o <<"P","_","A","G","E","6","5">>
ColPop == StrWeightedPrefix \o <<"P","O","P">>
ColOther == <<"o","t","h","e","r","_","c","o","l">>
ColRasterValue == <<"r","a","s","t","e","r","_","v","a","l","u","e">>
ColGeometry == <<"g","e","o","m","e","t","r","y">>
ColNested == <<"x","_">> \o StrWeightedPrefix \o <<"y">>
ColTwice == StrWeightedPrefix \o StrWeightedPrefix \o <<"a">>

StrOverallScore == <<"O","v","e","r","a","l","l"," ","S","c","o","r","e">>
StrPAge65 == <<"P"," ","A","g","e","6","5">>
StrWeightedTitle == <<"W","e","i","g","h","t","e","d"," ">>

----------------------------------------------------------------------------
(* utils.generate_column_mapping and utils.move_column_to_front *)

generate_column_mapping_untitled(columns, prefix, replacement, title_case) ==
    LET keys == {columns[i] : i \in {j \in 1..Len(columns) : startswith(columns[j], prefix)}}
    IN [col \in keys |-> str_replace(str_replace(col, prefix, replacement), <<"_">>, <<" ">>)]

generate_column_mapping(columns, prefix, replacement, title_case) ==
    LET keys == {columns[i] : i \in {j \in 1..Len(columns) : startswith(columns[j], prefix)}}
        plain(col) == str_replace(str_replace(col, prefix, replacement), <<"_">>, <<" ">>)
    IN [col \in keys |-> IF title_case THEN str_title(plain(col)) ELSE plain(col)]

\* list(mapping.keys()): the keys in the order the comprehension inserted them
dict_keys(columns, prefix) == FirstOccurrences(SelectPrefixed(columns, prefix))

move_column_to_front(columns, column_name) ==
    IF \E i \in 1..Len(columns) : columns[i] = column_name
    THEN LET k == CHOOSE i \in 1..Len(columns) :
                     /\ columns[i] = column_name
                     /\ \A j \in 1..(i - 1) : columns[j] # column_name
         IN <<column_name>> \o SubSeq(columns, 1, k - 1)
                            \o SubSeq(columns, k + 1, Len(columns))
    ELSE columns

----------------------------------------------------------------------------
(* Values *)

None == [kind |-> "None"]
Undefined == [kind |-> "undefined"]
NoKey == [kind |-> "nokey"]

\* a placeholder that already holds a record
EmptyFrame_prefilled ==
    [kind |-> "frame", columns |-> <<ColRasterValue>>,
     rows |-> <<[geometry |-> {1}, raster_value |-> 2, vals |-> <<>>]>>, key |-> NoKey]

\* pd.DataFrame(): no columns, no rows
EmptyFrame == [kind |-> "frame", columns |-> <<>>, rows |-> <<>>, key |-> NoKey]

\* DataFrame.empty
IsEmpty(df) == df.rows = <<>>

\* DataFrame.to_csv(): the header line followed by one line per record
to_csv(df) == <<df.columns>> \o [i \in 1..Len(df.rows) |-> df.rows[i]]

\* shapely intersects on geometries given as sets of grid cells
intersects_within(g1, g2) == g1 \subseteq g2
intersects(g1, g2) == g1 \cap g2 # {}

----------------------------------------------------------------------------
(* Static reference data: the boundary tables of load_state_county_zip_data. *)
(* The county table has two rows named Richmond in Virginia (the county    *)
(* and the independent city), as the census county file has.               *)

NoState == "Select a State"
NoCounty == "Select a County"

states == << [NAME |-> "Virginia", geometry |-> {1, 2, 3}],
             [NAME |-> "Maryland", geometry |-> {4, 5}] >>

counties == << [STATE_NAME |-> "Virginia", NAME |-> "Richmond", geometry |-> {1}],
               [STATE_NAME |-> "Virginia", NAME |-> "Richmond", geometry |-> {2}],
               [STATE_NAME |-> "Virginia", NAME |-> "Fairfax", geometry |-> {3}],
               [STATE_NAME |-> "Maryland", NAME |-> "Howard", geometry |-> {4}] >>

zipcodes == << [ZCTA5CE10 |-> "10044", geometry |-> {5}] >>

get_zipcode_boundary(zip_code, zipcodes_gdf) ==
    LET zb == SelectSeq(zipcodes_gdf, LAMBDA r : r.ZCTA5CE10 = zip_code)
    IN IF zb = <<>> THEN None ELSE [kind |-> "frame", rows |-> zb]

\* the options of the three sidebar widgets of load_geographic_data
StateOptions == {NoState} \cup {states[i].NAME : i \in 1..Len(states)}
CountyOptions(state) ==
    {NoCounty} \cup
    {counties[i].NAME : i \in {j \in 1..Len(counties) :
                                  state = NoState \/ counties[j].STATE_NAME = state}}
ZipInputs == {"", "10044"}

----------------------------------------------------------------------------
(* The remote dataset *)

IndicatorColumns == <<ColOverallScore, ColPop, ColPAge65>>
DataColumns == <<ColGeometry, ColRasterValue>> \o IndicatorColumns

Record(g, rv, score) ==
    [geometry |-> g, raster_value |-> rv,
     vals |-> [c \in {ColOverallScore, ColPop, ColPAge65} |->
                  IF c = ColOverallScore THEN score ELSE 1]]

\* indicator values [1,2,3,4,5] with risk levels [0,1,2,2,2]
SampleRows == << Record({1}, 0, 1), Record({2}, 1, 2), Record({1, 2}, 2, 3),
                 Record({4}, 2, 4), Record({6}, 2, 5) >>

Frame(cols, rws, k) == [kind |-> "frame", columns |-> cols, rows |-> rws, key |-> k]

----------------------------------------------------------------------------
(* Clock, day labels and the two st.cache_data stores *)

TTL == 86400                 \* ttl of app.cached_load_data
TTL_load_data_two_days == 2 * 86400
TTL_load_data == 86400       \* ttl of utils.load_data
\* the clock is advanced by half a ttl or a whole ttl at a time
TickSizes == {TTL \div 2, TTL}

\* "Day 1", "Day 2", ...: selected_day_label.split(' - ')[0]
DayLabel(i) == <<"D", "a", "y", " ">> \o <<<<"1", "2", "3", "4", "5", "6", "7">>[i]>>
Days == {DayLabel(1), DayLabel(2)}

\* datetime.now(tz).strftime("%Y%m%d"), as the number of the calendar day
current_date(t) == t \div (24 * 3600)

\* the remote resource key of utils.load_data
url(day, t) == [day |-> str_replace(day, <<" ">>, <<"+">>), date |-> current_date(t)]

NoEntry == [kind |-> "missing"]
Entry(v, t, msgs) == [kind |-> "entry", value |-> v, created |-> t, msgs |-> msgs]

\* a stored value is served while it is younger than the ttl
IsFresh(e, ttl, t) == e.kind = "entry" /\ t < e.created + ttl

\* what requests.get / raise_for_status / read_parquet can produce
Outcomes == {"transport_failure", "http_error", "malformed", "empty", "ok"}

\* body of utils.load_data: value returned and st.error messages shown
load_data(day, t, outcome) ==
    CASE outcome \in {"transport_failure", "http_error"} ->
             [value |-> None, msgs |-> {"Failed to download data"}]
      [] outcome = "malformed" ->
             [value |-> None, msgs |-> {"An error occurred while loading the data"}]
      [] outcome = "empty" ->
             [value |-> Frame(DataColumns, <<>>, url(day, t)), msgs |-> {}]
      [] OTHER ->
             [value |-> Frame(DataColumns, SampleRows, url(day, t)), msgs |-> {}]

\* body of app.cached_load_data given what utils.load_data returned
cached_load_data_body(inner) ==
    IF inner.value = None \/ IsEmpty(inner.value)
    THEN [value |-> None, msgs |-> inner.msgs \cup {"Data could not be loaded"}]
    ELSE [value |-> inner.value, msgs |-> inner.msgs]

----------------------------------------------------------------------------
(* utils.create_map *)

RECURSIVE Insert(_, _)
Insert(x, s) == IF s = <<>> THEN <<x>>
                ELSE IF x <= Head(s) THEN <<x>> \o s
                     ELSE <<Head(s)>> \o Insert(x, Tail(s))

RECURSIVE Sorted(_)
Sorted(s) == IF s = <<>> THEN <<>> ELSE Insert(Head(s), Sorted(Tail(s)))

Column(df, col) == [i \in 1..Len(df.rows) |-> df.rows[i].vals[col]]

\* the 'lower' interpolation: the value at the floor of the rank
percentile100_lower(a, q) ==
    LET s == Sorted(a)
    IN 100 * s[((q * (Len(s) - 1)) \div 100) + 1]

\* np.percentile(a, q), default linear interpolation, times 100: the value at
\* rank q/100 * (n - 1) of the sorted values, interpolated between neighbours
percentile100(a, q) ==
    LET s == Sorted(a)
        n == Len(s)
        pos == q * (n - 1)
        lo == pos \div 100
        frac == pos % 100
        hi == IF lo + 1 <= n - 1 THEN lo + 1 ELSE lo
    IN 100 * s[lo + 1] + frac * (s[hi + 1] - s[lo + 1])

highlight_column_strict(df, indicator, levels, q) ==
    LET percentile_threshold == percentile100(Column(df, indicator), q)
    IN [i \in 1..Len(df.rows) |->
           /\ 100 * df.rows[i].vals[indicator] > percentile_threshold
           /\ df.rows[i].raster_value \in levels]

\* the boolean 'highlight' column of highlighted_areas
highlight_column(df, indicator, levels, q) ==
    LET percentile_threshold == percentile100(Column(df, indicator), q)
    IN [i \in 1..Len(df.rows) |->
           /\ 100 * df.rows[i].vals[indicator] >= percentile_threshold
           /\ df.rows[i].raster_value \in levels]

MatchState(tbl, state) == SelectSeq(tbl, LAMBDA r : r.NAME = state)
MatchCounty(tbl, state, county) ==
    SelectSeq(tbl, LAMBDA r : r.STATE_NAME = state /\ r.NAME = county)

\* folium.Map without zoom_start, which then takes folium's default
MapObject_default_zoom(loc, zoom, layers) ==
    [kind |-> "map", location |-> loc, zoom_start |-> 10, layers |-> layers]

MapObject(loc, zoom, layers) ==
    [kind |-> "map", location |-> loc, zoom_start |-> zoom, layers |-> layers]

create_map(df, indicator, levels, q, state, county, states_gdf, counties_gdf, zb) ==
    IF IsEmpty(df)
    THEN [exception |-> "none", m |-> None, highlight |-> <<>>,
          msgs |-> {"The data is empty"}]
    ELSE
    LET hl == highlight_column(df, indicator, levels, q)
        state_rows == MatchState(states_gdf, state)
        county_rows == MatchCounty(counties_gdf, state, county)
        state_lookup == state # NoState
        county_lookup == county # NoCounty /\ state_lookup
    IN  IF (state_lookup /\ state_rows = <<>>) \/ (county_lookup /\ county_rows = <<>>)
        THEN \* .values[0] of an empty selection
             [exception |-> "IndexError", m |-> None, highlight |-> hl, msgs |-> {}]
        ELSE
        LET selected_state_geom == IF state_lookup THEN state_rows[1].geometry ELSE {}
            selected_county_geom == IF county_lookup THEN county_rows[1].geometry ELSE {}
            initial_location ==
                IF zb # None THEN [of |-> "zip", geometry |-> zb.rows[1].geometry]
                ELSE IF county_lookup THEN [of |-> "county", geometry |-> selected_county_geom]
                ELSE IF state_lookup THEN [of |-> "state", geometry |-> selected_state_geom]
                ELSE [of |-> "data", geometry |-> UNION {df.rows[i].geometry : i \in 1..Len(df.rows)}]
            initial_zoom ==
                IF zb # None THEN 13
                ELSE IF county_lookup THEN 8
                ELSE IF state_lookup THEN 6
                ELSE 4
            layers == (IF state_lookup THEN <<"State Boundary">> ELSE <<>>)
                      \o (IF county_lookup THEN <<"County Boundary">> ELSE <<>>)
                      \o (IF zb # None THEN <<"ZIP Code Boundary">> ELSE <<>>)
                      \o <<"highlighted_areas", "legend">>
        IN [exception |-> "none", m |-> MapObject(initial_location, initial_zoom, layers),
            highlight |-> hl, msgs |-> {}]

----------------------------------------------------------------------------
(* The page run of app.py *)

HeatThresholdChoices == {{2, 3, 4}, {2}}      \* multiselect, default first
PercentileChoices == {80, 60}                 \* slider, default first

UndefinedStr == "<undefined>"

RunLocalsUndefined ==
    /\ ran = {}
    /\ selected_day = <<>>
    /\ layer1_with_weighted_values = Undefined
    /\ selected_state = UndefinedStr
    /\ selected_county = UndefinedStr
    /\ zipcode_boundary = Undefined
    /\ hhi_column_mapping = Undefined
    /\ hhi_columns = <<>>
    /\ selected_hhi_indicator = <<>>
    /\ heat_threshold = {}
    /\ heat_health_index_threshold = -1
    /\ filtered_data = Undefined
    /\ download_csv = <<>>
    /\ m = Undefined
    /\ highlighted_areas = <<>>
    /\ messages = {}
    /\ exception = "none"

Init ==
    /\ now = 0
    /\ cache_app = [d \in Days |-> NoEntry]
    /\ cache_utils = [d \in Days |-> NoEntry]
    /\ net_calls = [d \in Days |-> <<>>]
    /\ pc = "idle"
    /\ RunLocalsUndefined

\* time passes between page runs
Tick(d) ==
    /\ pc = "idle"
    /\ now + d <= MaxTicks * (TTL \div 2)
    /\ now' = now + d
    /\ UNCHANGED <<cache_app, cache_utils, net_calls, pc, ran, selected_day,
                   layer1_with_weighted_values, selected_state, selected_county,
                   zipcode_boundary, hhi_column_mapping, hhi_columns,
                   selected_hhi_indicator, heat_threshold,
                   heat_health_index_threshold, filtered_data, download_csv, m,
                   highlighted_areas, messages, exception>>

\* app.py lines 11-54: day selection, cached_load_data(selected_day) through
\* both caches, the check of its result and load_geographic_data
LoadStep(day, outcome, st, co, zip) ==
    /\ pc = "idle"
    /\ st \in StateOptions
    /\ co \in CountyOptions(st)
    /\ LET app_hit == IsFresh(cache_app[day], TTL, now)
           utils_hit == IsFresh(cache_utils[day], TTL_load_data, now)
           inner == IF utils_hit
                    THEN [value |-> cache_utils[day].value, msgs |-> cache_utils[day].msgs]
                    ELSE load_data(day, now, outcome)
           outer == IF app_hit
                    THEN [value |-> cache_app[day].value, msgs |-> cache_app[day].msgs]
                    ELSE cached_load_data_body(inner)
       IN /\ cache_utils' = IF app_hit \/ utils_hit THEN cache_utils
                            ELSE [cache_utils EXCEPT ![day] = Entry(inner.value, now, inner.msgs)]
          /\ cache_app' = IF app_hit THEN cache_app
                          ELSE [cache_app EXCEPT ![day] = Entry(outer.value, now, outer.msgs)]
          /\ net_calls' = IF app_hit \/ utils_hit THEN net_calls
                          ELSE [net_calls EXCEPT ![day] = Append(@, now)]
          /\ layer1_with_weighted_values' = outer.value
          /\ IF outer.value = None
             THEN /\ messages' = outer.msgs \cup {"Failed to load data"}
                  /\ UNCHANGED <<selected_state, selected_county, zipcode_boundary>>
             ELSE /\ messages' = outer.msgs
                  /\ selected_state' = st
                  /\ selected_county' = co
                  /\ zipcode_boundary' = get_zipcode_boundary(zip, zipcodes)
    /\ selected_day' = day
    /\ ran' = {"load"}
    /\ pc' = "mapping"
    /\ UNCHANGED <<now, hhi_column_mapping, hhi_columns, selected_hhi_indicator,
                   heat_threshold, heat_health_index_threshold, filtered_data,
                   download_csv, m, highlighted_areas, exception>>

\* app.py lines 57-104: column mapping, indicator and threshold widgets,
\* filtered_data placeholder and the download button
MappingStep(k, levels, q) ==
    /\ pc = "mapping"
    /\ ran' = ran \cup {"mapping"}
    /\ IF layer1_with_weighted_values = None
       THEN \* None has no attribute 'columns'
            /\ exception' = "AttributeError"
            /\ pc' = "raised"
            /\ UNCHANGED <<hhi_column_mapping, hhi_columns, selected_hhi_indicator,
                           heat_threshold, heat_health_index_threshold,
                           filtered_data, download_csv>>
       ELSE LET mapping == generate_column_mapping(layer1_with_weighted_values.columns,
                               StrWeightedPrefix, StrWeightedReplacement, TRUE)
                cols == move_column_to_front(
                            dict_keys(layer1_with_weighted_values.columns, StrWeightedPrefix),
                            ColOverallScore)
                display_names == [i \in 1..Len(cols) |-> mapping[cols[i]]]
            IN /\ hhi_column_mapping' = mapping
               /\ hhi_columns' = cols
               /\ IF display_names = <<>>
                  THEN \* selectbox yields None and display_names.index(None) fails
                       /\ exception' = "ValueError"
                       /\ pc' = "raised"
                       /\ UNCHANGED <<selected_hhi_indicator, heat_threshold,
                                      heat_health_index_threshold, filtered_data,
                                      download_csv>>
                  ELSE /\ k \in 1..Len(display_names)
                       /\ selected_hhi_indicator' =
                              cols[CHOOSE i \in 1..Len(cols) :
                                      /\ display_names[i] = display_names[k]
                                      /\ \A j \in 1..(i - 1) : display_names[j] # display_names[k]]
                       /\ heat_threshold' = levels
                       /\ heat_health_index_threshold' = q
                       /\ filtered_data' = EmptyFrame
                       /\ download_csv' = to_csv(EmptyFrame)
                       /\ pc' = "map"
                       /\ UNCHANGED exception
    /\ UNCHANGED <<now, cache_app, cache_utils, net_calls, selected_day,
                   layer1_with_weighted_values, selected_state, selected_county,
                   zipcode_boundary, m, highlighted_areas, messages>>


\* app.py lines 115-127: create_map on the loaded dataset, folium_static, legend
MapStep ==
    /\ pc = "map"
    /\ ran' = ran \cup {"map"}
    /\ LET r == create_map(layer1_with_weighted_values, selected_hhi_indicator,
                           heat_threshold, heat_health_index_threshold,
                           selected_state, selected_county, states, counties,
                           zipcode_boundary)
       IN /\ m' = r.m
          /\ highlighted_areas' = r.highlight
          /\ messages' = messages \cup r.msgs
          /\ IF r.exception # "none"
             THEN exception' = r.exception /\ pc' = "raised"
             ELSE IF r.m = None
                  THEN \* folium_static(None)
                       exception' = "AttributeError" /\ pc' = "raised"
                  ELSE pc' = "filter" /\ UNCHANGED exception
    /\ UNCHANGED <<now, cache_app, cache_utils, net_calls, selected_day,
                   layer1_with_weighted_values, selected_state, selected_county,
                   zipcode_boundary, hhi_column_mapping, hhi_columns,
                   selected_hhi_indicator, heat_threshold,
                   heat_health_index_threshold, filtered_data, download_csv>>

Intersecting(df, geom) ==
    Frame(df.columns, SelectSeq(df.rows, LAMBDA r : intersects(r.geometry, geom)), df.key)

\* the state-only branch tested before the state+county branch
geographic_filter_state_first(df, state, county, states_gdf, counties_gdf, prior) ==
    IF state # NoState
    THEN [filtered_data |-> IF MatchState(states_gdf, state) # <<>>
                            THEN Intersecting(df, MatchState(states_gdf, state)[1].geometry)
                            ELSE EmptyFrame,
          msgs |-> {}]
    ELSE IF county # NoCounty THEN [filtered_data |-> df, msgs |-> {}]
    ELSE [filtered_data |-> prior,
          msgs |-> {"Select a State or County to get key summaries"}]

\* app.py lines 129-148 and 186-187: the filtered view for a selection, and
\* what is shown while it is built; prior is filtered_data before the block
geographic_filter(df, state, county, states_gdf, counties_gdf, prior) ==
    IF state # NoState \/ county # NoCounty
    THEN IF county # NoCounty /\ state # NoState
         THEN LET selected_county_geom == MatchCounty(counties_gdf, state, county)
              IN IF selected_county_geom # <<>>
                 THEN [filtered_data |-> Intersecting(df, selected_county_geom[1].geometry),
                       msgs |-> {}]
                 ELSE [filtered_data |-> EmptyFrame,
                       msgs |-> {"Could not find the geometry for the selected county"}]
         ELSE IF state # NoState
         THEN LET selected_state_geom == MatchState(states_gdf, state)
              IN IF selected_state_geom # <<>>
                 THEN [filtered_data |-> Intersecting(df, selected_state_geom[1].geometry),
                       msgs |-> {}]
                 ELSE [filtered_data |-> EmptyFrame,
                       msgs |-> {"Could not find the geometry for the selected state"}]
         ELSE [filtered_data |-> df, msgs |-> {}]
    ELSE [filtered_data |-> prior,
          msgs |-> {"Select a State or County to get key summaries"}]

HasColumn(df, col) == \E i \in 1..Len(df.columns) : df.columns[i] = col

\* app.py lines 129-211: geographic filter, key summary and charts, footer
FilterStep ==
    /\ pc = "filter"
    /\ ran' = ran \cup {"filter"}
    /\ LET f == geographic_filter(layer1_with_weighted_values, selected_state,
                                  selected_county, states, counties, filtered_data)
           selected == selected_state # NoState \/ selected_county # NoCounty
       IN /\ filtered_data' = f.filtered_data
          /\ IF ~selected
             THEN messages' = messages \cup f.msgs /\ pc' = "done" /\ UNCHANGED exception
             ELSE IF IsEmpty(f.filtered_data)
             THEN /\ messages' = messages \cup f.msgs \cup
                                 {"No data available for the selected state or county"}
                  /\ pc' = "done"
                  /\ UNCHANGED exception
             ELSE IF HasColumn(f.filtered_data, ColPop) /\ HasColumn(f.filtered_data, ColPAge65)
             THEN /\ messages' = messages \cup f.msgs \cup {"Key Summary"}
                  /\ pc' = "done"
                  /\ UNCHANGED exception
             ELSE /\ messages' = messages \cup f.msgs
                  /\ exception' = "KeyError"
                  /\ pc' = "raised"
    /\ UNCHANGED <<now, cache_app, cache_utils, net_calls, selected_day,
                   layer1_with_weighted_values, selected_state, selected_county,
                   zipcode_boundary, hhi_column_mapping, hhi_columns,
                   selected_hhi_indicator, heat_threshold,
                   heat_health_index_threshold, download_csv, m,
                   highlighted_areas>>

\* the script run is over; the next interaction starts a fresh run
Finish ==
    /\ pc \in {"done", "raised"}
    /\ pc' = "idle"
    /\ ran' = {}
    /\ selected_day' = <<>>
    /\ layer1_with_weighted_values' = Undefined
    /\ selected_state' = UndefinedStr
    /\ selected_county' = UndefinedStr
    /\ zipcode_boundary' = Undefined
    /\ hhi_column_mapping' = Undefined
    /\ hhi_columns' = <<>>
    /\ selected_hhi_indicator' = <<>>
    /\ heat_threshold' = {}
    /\ heat_health_index_threshold' = -1
    /\ filtered_data' = Undefined
    /\ download_csv' = <<>>
    /\ m' = Undefined
    /\ highlighted_areas' = <<>>
    /\ messages' = {}
    /\ exception' = "none"
    /\ UNCHANGED <<now, cache_app, cache_utils, net_calls>>

\* Page runs at one instant, every sidebar selection
Next ==
    \/ \E day \in Days, outcome \in Outcomes, st \in StateOptions,
          co \in {NoCounty} \cup {counties[i].NAME : i \in 1..Len(counties)},
          zip \in ZipInputs : LoadStep(day, outcome, st, co, zip)
    \/ \E k \in 1..Len(IndicatorColumns), levels \in HeatThresholdChoices,
          q \in PercentileChoices : MappingStep(k, levels, q)
    \/ MapStep
    \/ FilterStep
    \/ Finish

Spec == Init /\ [][Next]_vars

\* Page runs as time passes, the sidebar left at its defaults
NextCache ==
    \/ \E d \in TickSizes : Tick(d)
    \/ \E day \in Days, outcome \in Outcomes : LoadStep(day, outcome, NoState, NoCounty, "")
    \/ MappingStep(1, {2, 3, 4}, 80)
    \/ MapStep
    \/ FilterStep
    \/ Finish

SpecCache == Init /\ [][NextCache]_vars

----------------------------------------------------------------------------
(* generate_column_mapping on the header of any small dataset *)

ColumnNames == {ColOverallScore, ColPAge65, ColOther, ColNested, ColTwice, ColRasterValue}

RECURSIVE SeqsUpTo(_, _)
SeqsUpTo(S, n) ==
    IF n = 0 THEN {<<>>}
    ELSE LET shorter == SeqsUpTo(S, n - 1)
         IN shorter \cup {Append(s, x) : s \in shorter, x \in S}

HeaderRow(cols) ==
    [geometry |-> {1}, raster_value |-> 2,
     vals |-> [c \in {cols[i] : i \in 1..Len(cols)} |-> 1]]

GlobalsAtStart ==
    /\ now = 0
    /\ cache_app = [d \in Days |-> NoEntry]
    /\ cache_utils = [d \in Days |-> NoEntry]
    /\ net_calls = [d \in Days |-> <<>>]

InitMapping ==
    /\ GlobalsAtStart
    /\ pc = "mapping"
    /\ ran = {"load"}
    /\ selected_day = DayLabel(1)
    /\ layer1_with_weighted_values \in
           {Frame(cols, <<HeaderRow(cols)>>, NoKey) : cols \in SeqsUpTo(ColumnNames, MaxCols)}
    /\ selected_state = NoState
    /\ selected_county = NoCounty
    /\ zipcode_boundary = None
    /\ hhi_column_mapping = Undefined
    /\ hhi_columns = <<>>
    /\ selected_hhi_indicator = <<>>
    /\ heat_threshold = {}
    /\ heat_health_index_threshold = -1
    /\ filtered_data = Undefined
    /\ download_csv = <<>>
    /\ m = Undefined
    /\ highlighted_areas = <<>>
    /\ messages = {}
    /\ exception = "none"

NextMapping ==
    \E k \in 1..MaxCols, levels \in HeatThresholdChoices, q \in PercentileChoices :
        MappingStep(k, levels, q)

SpecMapping == InitMapping /\ [][NextMapping]_vars

----------------------------------------------------------------------------
(* create_map and the geographic filter on any small dataset and any       *)
(* selection, names absent from the boundary tables included               *)

ArgRasterValues == {1, 2}
ArgStates == {NoState, "Virginia", "Atlantis"}
ArgCounties == {NoCounty, "Richmond", "Nowhere"}
ArgPercentiles == {0, 50, 60, 100}
ArgZipBoundaries == {None, get_zipcode_boundary("10044", zipcodes)}

ArgRows == {Record({v}, rv, v) : v \in 1..MaxVal, rv \in ArgRasterValues}
ArgDatasets == {Frame(DataColumns, rws, NoKey) : rws \in SeqsUpTo(ArgRows, MaxRecs) \cup {SampleRows}}

InitArgs ==
    /\ GlobalsAtStart
    /\ pc = "map"
    /\ ran = {"load", "mapping"}
    /\ selected_day = DayLabel(1)
    /\ layer1_with_weighted_values \in ArgDatasets
    /\ selected_state \in ArgStates
    /\ selected_county \in ArgCounties
    /\ zipcode_boundary \in ArgZipBoundaries
    /\ hhi_column_mapping = generate_column_mapping(DataColumns, StrWeightedPrefix,
                                                    StrWeightedReplacement, TRUE)
    /\ hhi_columns = IndicatorColumns
    /\ selected_hhi_indicator = ColOverallScore
    /\ heat_threshold \in HeatThresholdChoices
    /\ heat_health_index_threshold \in ArgPercentiles
    /\ filtered_data = EmptyFrame
    /\ download_csv = to_csv(EmptyFrame)
    /\ m = Undefined
    /\ highlighted_areas = <<>>
    /\ messages = {}
    /\ exception = "none"

NextArgs == MapStep \/ FilterStep

SpecArgs == InitArgs /\ [][NextArgs]_vars

----------------------------------------------------------------------------
(* Properties *)

Downstream == {"mapping", "map", "filter"}
LoadFailed == pc # "idle" /\ layer1_with_weighted_values = None
RunEnded == pc \in {"done", "raised"}

\* C1: when the dataset load fails, the run shows the error and no
\* statement group after the load (column mapping, create_map, summary)
\* is executed in that run.
C1_HardStopOnFailedLoad ==
    LoadFailed => /\ "Failed to load data" \in messages
                  /\ ran \cap Downstream = {}

\* C2: no page run ends with an uncaught exception, whatever the fetch
\* outcome and the sidebar selection.
C2_NoUncaughtException == exception = "none"

\* C3: for one day label, network calls are at least one ttl apart, a
\* request within the ttl of the stored entry makes no network call, and a
\* request with no entry younger than the ttl makes exactly one.
C3_CallsOneWindowApart ==
    \A d \in Days : \A i, j \in 1..Len(net_calls[d]) :
        i < j => net_calls[d][j] - net_calls[d][i] >= TTL

C3_Request ==
    \A d \in Days :
        (pc = "idle" /\ pc' = "mapping" /\ selected_day' = d) =>
            IF cache_app[d].kind = "entry" /\ now < cache_app[d].created + TTL
            THEN net_calls'[d] = net_calls[d]
            ELSE net_calls'[d] = Append(net_calls[d], now)

\* C3: within the ttl of a day label's entry all requests together make one
\* network call, and the first request after it has elapsed makes a new one.
C3_OneNetworkCallPerWindow == [](C3_CallsOneWindowApart) /\ [][C3_Request]_vars

\* a run served from the cache after the entry of its day was refetched
C3_Witness ==
    /\ pc = "mapping"
    /\ Len(net_calls[selected_day]) = 2
    /\ now > net_calls[selected_day][2]

SampleCase ==
    /\ "map" \in ran
    /\ layer1_with_weighted_values.rows = SampleRows
    /\ selected_hhi_indicator = ColOverallScore
    /\ heat_health_index_threshold = 60
    /\ heat_threshold = {2}

\* C4 as stated: on values [1,2,3,4,5], levels [0,1,2,2,2], percentile 60 and
\* accepted levels {2}, the highlighted records are those with value >= 3
\* and level 2.
C4_HighlightFromThree ==
    SampleCase =>
        highlighted_areas =
            [i \in 1..5 |-> SampleRows[i].vals[ColOverallScore] >= 3
                            /\ SampleRows[i].raster_value = 2]

\* C4 amended: the 60th percentile of [1,2,3,4,5] is 3.4, so the highlighted
\* records are those with value >= 3.4 (the values 4 and 5) and level 2; the
\* record with value 3 is not highlighted.
C4_HighlightFromThreePointFour ==
    SampleCase => highlighted_areas = <<FALSE, FALSE, FALSE, TRUE, TRUE>>

C4_Witness == SampleCase /\ pc = "filter"

\* the k-th smallest (k from 0) of a list of values, by counting
KthSmallest(a, k) ==
    CHOOSE v \in {a[i] : i \in 1..Len(a)} :
        /\ Cardinality({i \in 1..Len(a) : a[i] < v}) <= k
        /\ Cardinality({i \in 1..Len(a) : a[i] <= v}) > k

\* C5: create_map flags every record of the dataset; a record is flagged iff
\* its indicator value is >= the percentile of the indicator over all
\* records and its raster_value is an accepted level, whatever the
\* selected state, county and ZIP.
C5_HighlightIffAboveThreshold ==
    ("map" \in ran /\ ~IsEmpty(layer1_with_weighted_values)) =>
        LET rws == layer1_with_weighted_values.rows
            a == [i \in 1..Len(rws) |-> rws[i].vals[selected_hhi_indicator]]
            pos == heat_health_index_threshold * (Len(a) - 1)
            below == KthSmallest(a, pos \div 100)
            above == KthSmallest(a, IF pos % 100 = 0 THEN pos \div 100 ELSE (pos \div 100) + 1)
            threshold100 == 100 * below + (pos % 100) * (above - below)
        IN /\ DOMAIN highlighted_areas = 1..Len(rws)
           /\ \A i \in 1..Len(rws) :
                  highlighted_areas[i] <=>
                      (100 * a[i] >= threshold100 /\ rws[i].raster_value \in heat_threshold)

\* a state and a ZIP selected, a record at the threshold flagged, one below not
C5_Witness ==
    /\ pc = "filter"
    /\ selected_state = "Virginia"
    /\ zipcode_boundary # None
    /\ \E i, j \in 1..Len(highlighted_areas) :
          /\ highlighted_areas[i]
          /\ ~highlighted_areas[j]
          /\ 100 * layer1_with_weighted_values.rows[i].vals[selected_hhi_indicator]
                 = percentile100(Column(layer1_with_weighted_values, selected_hhi_indicator),
                                 heat_health_index_threshold)

MappingBuilt == "mapping" \in ran /\ layer1_with_weighted_values # None
PrefixedColumns ==
    {layer1_with_weighted_values.columns[i] :
        i \in {j \in 1..Len(layer1_with_weighted_values.columns) :
                  SubSeq(layer1_with_weighted_values.columns[j], 1, 9) = StrWeightedPrefix}}

\* C6 as stated: the keys are the columns starting with 'weighted_', each
\* mapped to its name with the prefix stripped, underscores as spaces, in
\* title case: weighted_OVERALL_SCORE to 'Overall Score', weighted_P_AGE65
\* to 'P Age65'.
C6_PrefixStripped ==
    MappingBuilt =>
        /\ DOMAIN hhi_column_mapping = PrefixedColumns
        /\ ColOverallScore \in PrefixedColumns =>
               hhi_column_mapping[ColOverallScore] = StrOverallScore
        /\ ColPAge65 \in PrefixedColumns =>
               hhi_column_mapping[ColPAge65] = StrPAge65

\* C6 amended: the keys are the columns starting with 'weighted_', each
\* mapped to its name with 'weighted_' replaced by 'weighted ', underscores
\* as spaces, in title case: weighted_OVERALL_SCORE to 'Weighted Overall
\* Score', weighted_P_AGE65 to 'Weighted P Age65'.
C6_PrefixKeptAsWord ==
    MappingBuilt =>
        /\ DOMAIN hhi_column_mapping = PrefixedColumns
        /\ ColOverallScore \in PrefixedColumns =>
               hhi_column_mapping[ColOverallScore] = StrWeightedTitle \o StrOverallScore
        /\ ColPAge65 \in PrefixedColumns =>
               hhi_column_mapping[ColPAge65] = StrWeightedTitle \o StrPAge65
        /\ ColTwice \in PrefixedColumns =>
               hhi_column_mapping[ColTwice] = StrWeightedTitle \o StrWeightedTitle \o <<"A">>

C6_Witness ==
    /\ pc = "map"
    /\ layer1_with_weighted_values.columns = <<ColOverallScore, ColPAge65, ColOther>>
    /\ DOMAIN hhi_column_mapping = {ColOverallScore, ColPAge65}

FilterRan == "filter" \in ran
BothSelected == selected_state # NoState /\ selected_county # NoCounty
MatchingRows ==
    IF selected_county # NoCounty
    THEN SelectSeq(counties, LAMBDA r : r.STATE_NAME = selected_state /\ r.NAME = selected_county)
    ELSE SelectSeq(states, LAMBDA r : r.NAME = selected_state)
RowsTouching(geom) ==
    SelectSeq(layer1_with_weighted_values.rows, LAMBDA r : r.geometry \cap geom # {})
IsSubSeqOfData ==
    \A i \in 1..Len(filtered_data.rows) :
        \E j \in 1..Len(layer1_with_weighted_values.rows) :
            filtered_data.rows[i] = layer1_with_weighted_values.rows[j]

\* C7 as stated: with a state selected (alone or with a county) and matching
\* boundary rows, the filtered view is the records intersecting the union of
\* the geometries of all matching rows, and a subset of the dataset.
C7_FilterByUnionOfMatches ==
    (FilterRan /\ selected_state # NoState /\ MatchingRows # <<>>) =>
        /\ filtered_data.rows =
               RowsTouching(UNION {MatchingRows[i].geometry : i \in 1..Len(MatchingRows)})
        /\ IsSubSeqOfData

\* C7 amended: with a state selected (alone or with a county) and matching
\* boundary rows, the filtered view is the records intersecting the geometry
\* of the first matching row, and a subset of the dataset.
C7_FilterByFirstMatch ==
    (FilterRan /\ selected_state # NoState /\ MatchingRows # <<>>) =>
        /\ filtered_data.rows = RowsTouching(MatchingRows[1].geometry)
        /\ IsSubSeqOfData

\* two boundary rows match; a record touching only the second is left out
C7_Witness ==
    /\ pc = "done"
    /\ selected_state = "Virginia"
    /\ selected_county = "Richmond"
    /\ Len(MatchingRows) = 2
    /\ Len(filtered_data.rows) = 2
    /\ Len(layer1_with_weighted_values.rows) = 5

C9_PassThroughWhenUnselected ==
    FilterRan =>
        /\ (selected_state = NoState /\ selected_county = NoCounty) =>
               filtered_data = layer1_with_weighted_values
        /\ (selected_state # NoState /\ MatchingRows # <<>>) =>
               filtered_data.rows = RowsTouching(MatchingRows[1].geometry)

\* C9 amended: with neither a state nor a county selected the filtered view
\* stays the empty placeholder table (the full dataset is passed through when
\* a county is selected without a state); with both, the state+county rows
\* are used; with a state only, the state rows.
C9_PlaceholderWhenUnselected ==
    FilterRan =>
        /\ (selected_state = NoState /\ selected_county = NoCounty) =>
               filtered_data = EmptyFrame
        /\ (selected_state = NoState /\ selected_county # NoCounty) =>
               filtered_data = layer1_with_weighted_values
        /\ (selected_state # NoState /\ MatchingRows # <<>>) =>
               filtered_data.rows = RowsTouching(MatchingRows[1].geometry)

C9_Witness ==
    /\ pc = "done"
    /\ selected_state = NoState
    /\ selected_county = NoCounty
    /\ ~IsEmpty(layer1_with_weighted_values)
    /\ "Select a State or County to get key summaries" \in messages

\* C10: create_map called with a state, or a state and a county, that has no
\* row in the boundary table shows a warning and still returns a map.
C10_MissingGeometryStillMaps ==
    ("map" \in ran /\ ~IsEmpty(layer1_with_weighted_values)
        /\ selected_state # NoState
        /\ (SelectSeq(states, LAMBDA r : r.NAME = selected_state) = <<>>
               \/ (selected_county # NoCounty /\ MatchingRows = <<>>))) =>
        /\ exception = "none"
        /\ m.kind = "map"
        /\ messages # {}

DownloadOffered == pc \in {"map", "filter", "done"}

MapReturned == "map" \in ran /\ m # Undefined /\ m # None
FirstCountyRow ==
    SelectSeq(counties, LAMBDA r : r.STATE_NAME = selected_state /\ r.NAME = selected_county)[1]
FirstStateRow == SelectSeq(states, LAMBDA r : r.NAME = selected_state)[1]
DatasetExtent ==
    UNION {layer1_with_weighted_values.rows[i].geometry :
              i \in 1..Len(layer1_with_weighted_values.rows)}

\* C12 as stated: the view is the ZIP boundary centroid at zoom 13 when a ZIP
\* boundary is given, else the county centroid at zoom 8 when a county is
\* selected, else the state centroid at zoom 6 when a state is selected,
\* else the mean of the dataset centroids at zoom 4.
C12_ViewByZipCountyState ==
    MapReturned =>
        IF zipcode_boundary # None
        THEN m.zoom_start = 13 /\ m.location.of = "zip"
        ELSE IF selected_county # NoCounty
        THEN m.zoom_start = 8 /\ m.location.of = "county"
        ELSE IF selected_state # NoState
        THEN m.zoom_start = 6 /\ m.location.of = "state"
        ELSE m.zoom_start = 4 /\ m.location.of = "data"

\* C12 amended: the county centroid at zoom 8 is used only when a county and
\* a state are both selected; a county selected without a state falls
\* through to the mean of the dataset centroids at zoom 4.
C12_ViewCountyNeedsState ==
    MapReturned =>
        IF zipcode_boundary # None
        THEN /\ m.zoom_start = 13
             /\ m.location = [of |-> "zip", geometry |-> zipcode_boundary.rows[1].geometry]
        ELSE IF selected_county # NoCounty /\ selected_state # NoState
        THEN /\ m.zoom_start = 8
             /\ m.location = [of |-> "county", geometry |-> FirstCountyRow.geometry]
        ELSE IF selected_state # NoState
        THEN /\ m.zoom_start = 6
             /\ m.location = [of |-> "state", geometry |-> FirstStateRow.geometry]
        ELSE /\ m.zoom_start = 4
             /\ m.location = [of |-> "data", geometry |-> DatasetExtent]

\* a county selected without a state and no ZIP: the continental view
C12_Witness ==
    /\ pc = "filter"
    /\ selected_state = NoState
    /\ selected_county = "Fairfax"
    /\ zipcode_boundary = None
    /\ m.zoom_start = 4

DatasetInUse == pc # "idle" /\ layer1_with_weighted_values.kind = "frame"

\* C13: in every page run the dataset in use was fetched under the key made
\* of the run's day label (spaces as '+') and the run's current date; a run
\* never uses a dataset fetched under an earlier date's key.
C13_DatasetOfTodaysKey ==
    DatasetInUse =>
        /\ layer1_with_weighted_values.key.day =
               [i \in 1..Len(selected_day) |->
                   IF selected_day[i] = " " THEN "+" ELSE selected_day[i]]
        /\ layer1_with_weighted_values.key.date = now \div 86400

\* C14: a request for a day label whose stored result is a failed load (None)
\* makes a new network call, even within the ttl of that entry.
C14_FailedLoadIsRefetched ==
    [][\A d \in Days :
          (/\ pc = "idle" /\ pc' = "mapping" /\ selected_day' = d
           /\ cache_app[d].kind = "entry"
           /\ cache_app[d].value = None)
          => net_calls'[d] = Append(net_calls[d], now)]_vars

====
